---- MODULE Spec2Model ----
(***************************************************************************)
(* Tool registry and dispatcher of AIOToolSuite (src/lib/tools.utils.ts,    *)
(* src/lib/config): a static list of tool descriptors, the public views    *)
(* derived from it, and runTool, which resolves a tool's logic through its *)
(* lazy loader, memoizes it in _logicCache and invokes it.                 *)
(***************************************************************************)
EXTENDS Integers, Sequences, FiniteSets, TLC

\* ------------------------------------------------------------------ bounds
\* Number of runTool calls issued in one behaviour.
MaxCalls == 2

Calls == 1..MaxCalls

\* ------------------------------------------------------- JavaScript values
\* A value is tagged with its typeof class; functions carry a name and the
\* number of the loader invocation that created them (gen), so that two
\* closures created by two loader invocations are different objects.
Fn(name, gen) == [t |-> "function", name |-> name, gen |-> gen]

Undefined == [t |-> "undefined", name |-> "", gen |-> 0]

Null == [t |-> "null", name |-> "", gen |-> 0]

PlainObject == [t |-> "object", name |-> "", gen |-> 0]

\* typeof v === 'function'
IsFunction(v) == v.t = "function"

\* v is null or undefined (the left operand test of ??)
IsNullish(v) == v.t \in {"undefined", "null"}

\* ----------------------------------------------------------------- modules
\* A module-like object: its enumerable own properties in insertion order.
Export(k, v) == [key |-> k, val |-> v]

\* Property read mod[k]: undefined when the object has no such key.
ModGet(mod, k) ==
    IF \E i \in 1..Len(mod) : mod[i].key = k
    THEN mod[CHOOSE i \in 1..Len(mod) : mod[i].key = k].val
    ELSE Undefined

\* Object.values(mod)[0]: undefined for an object without properties.
FirstValue(mod) == IF Len(mod) = 0 THEN Undefined ELSE mod[1].val

HasKey(mod, k) == \E i \in 1..Len(mod) : mod[i].key = k

\* The exports of src/tools/textTools.
textToolsModule ==
    << Export("caseConverter", Fn("caseConverter", 0)),
       Export("wordCounter", Fn("wordCounter", 0)),
       Export("textSummarizer", Fn("textSummarizer", 0)),
       Export("textDiffChecker", Fn("textDiffChecker", 0)),
       Export("spellChecker", Fn("spellChecker", 0)) >>

\* The exports of src/tools/seoTools used by the registry.
seoToolsModule ==
    << Export("metaTagGenerator", Fn("metaTagGenerator", 0)),
       Export("keywordDensity", Fn("keywordDensity", 0)),
       Export("seoAuditTool", Fn("seoAuditTool", 0)),
       Export("backlinkChecker", Fn("backlinkChecker", 0)),
       Export("serpPreview", Fn("serpPreview", 0)) >>

\* ---------------------------------------------------------------- registry
categories ==
    [SEO |-> "seo-tools",
     IMAGE |-> "image-tools",
     VIDEO |-> "video-tools",
     PDF |-> "pdf-tools",
     TEXT |-> "text-tools",
     AUDIO |-> "audio-tools",
     DEVELOPER |-> "developer-tools",
     SOCIAL |-> "social-tools",
     COLOR |-> "color-tools",
     SECURITY |-> "security-tools",
     MARKDOWN |-> "markdown-tools",
     ENCRYPTION |-> "encryption-tools",
     FILE |-> "file-tools",
     QRCODE |-> "qr-code-tools",
     BARCODE |-> "barcode-tools",
     UNIT_CONVERTER |-> "unit-converter",
     CURRENCY |-> "currency-tools",
     TIMESTAMP |-> "timestamp-tools",
     AI |-> "ai-tools",
     UX |-> "ux-tools",
     HTML |-> "html-tools",
     EMAIL |-> "email-tools",
     FAVICON |-> "favicon-tools",
     JSON |-> "json-tools",
     GIF |-> "gif-tools"]

categoryMeta ==
 <<
    [key |-> "text-tools", title |-> "Text Tools", desc |-> "Utilities to transform and analyze text.", icon |-> "FaFont", path |-> "/text-tools", color |-> "text-blue-500"],
    [key |-> "seo-tools", title |-> "SEO Tools", desc |-> "Optimize your content for search engines.", icon |-> "FaSearch", path |-> "/seo-tools", color |-> "text-green-500"],
    [key |-> "image-tools", title |-> "Image Tools", desc |-> "Edit, optimize, and convert images easily.", icon |-> "FaImage", path |-> "/image-tools", color |-> "text-yellow-500"],
    [key |-> "video-tools", title |-> "Video Tools", desc |-> "Trim, compress, and convert videos.", icon |-> "FaVideo", path |-> "/video-tools", color |-> "text-red-500"],
    [key |-> "pdf-tools", title |-> "PDF Tools", desc |-> "Split, merge, and convert PDF files.", icon |-> "FaFilePdf", path |-> "/pdf-tools", color |-> "text-pink-500"],
    [key |-> "audio-tools", title |-> "Audio Tools", desc |-> "Edit, compress, and convert audio files.", icon |-> "FaMusic", path |-> "/audio-tools", color |-> "text-indigo-500"],
    [key |-> "developer-tools", title |-> "Developer Tools", desc |-> "Handy utilities for developers and coders.", icon |-> "FaCode", path |-> "/developer-tools", color |-> "text-gray-600"],
    [key |-> "social-tools", title |-> "Social Tools", desc |-> "Tools for social media optimization.", icon |-> "FaShareAlt", path |-> "/social-tools", color |-> "text-pink-400"],
    [key |-> "color-tools", title |-> "Color Tools", desc |-> "Pick, convert, and generate colors.", icon |-> "FaPalette", path |-> "/color-tools", color |-> "text-amber-500"],
    [key |-> "security-tools", title |-> "Security Tools", desc |-> "Check, secure, and analyze your data.", icon |-> "FaShieldAlt", path |-> "/security-tools", color |-> "text-red-600"],
    [key |-> "markdown-tools", title |-> "Markdown Tools", desc |-> "Convert and preview markdown content.", icon |-> "FaMarkdown", path |-> "/markdown-tools", color |-> "text-gray-800"],
    [key |-> "encryption-tools", title |-> "Encryption Tools", desc |-> "Encrypt and decrypt your sensitive data.", icon |-> "FaLock", path |-> "/encryption-tools", color |-> "text-purple-700"],
    [key |-> "file-tools", title |-> "File Tools", desc |-> "Manage and convert various file types.", icon |-> "FaFile", path |-> "/file-tools", color |-> "text-purple-500"],
    [key |-> "qr-code-tools", title |-> "QR Code Tools", desc |-> "Generate and scan QR codes easily.", icon |-> "FaQrcode", path |-> "/qr-code-tools", color |-> "text-green-600"],
    [key |-> "barcode-tools", title |-> "Barcode Tools", desc |-> "Generate and read barcodes quickly.", icon |-> "FaBarcode", path |-> "/barcode-tools", color |-> "text-gray-700"],
    [key |-> "unit-converter", title |-> "Unit Converter", desc |-> "Convert units across categories instantly.", icon |-> "FaBalanceScale", path |-> "/unit-converter", color |-> "text-blue-600"],
    [key |-> "currency-tools", title |-> "Currency Tools", desc |-> "Convert currencies with real-time rates.", icon |-> "FaDollarSign", path |-> "/currency-tools", color |-> "text-green-700"],
    [key |-> "timestamp-tools", title |-> "Timestamp Tools", desc |-> "Convert and format timestamps.", icon |-> "FaClock", path |-> "/timestamp-tools", color |-> "text-orange-600"],
    [key |-> "ai-tools", title |-> "AI Tools", desc |-> "AI-powered tools and generators.", icon |-> "FaRobot", path |-> "/ai-tools", color |-> "text-sky-500"],
    [key |-> "ux-tools", title |-> "UX Tools", desc |-> "User experience design utilities.", icon |-> "FaDraftingCompass", path |-> "/ux-tools", color |-> "text-teal-600"],
    [key |-> "html-tools", title |-> "HTML Tools", desc |-> "Validate, format, and edit HTML code.", icon |-> "FaHtml5", path |-> "/html-tools", color |-> "text-orange-500"],
    [key |-> "email-tools", title |-> "Email Tools", desc |-> "Validate and generate emails.", icon |-> "FaEnvelope", path |-> "/email-tools", color |-> "text-blue-400"],
    [key |-> "favicon-tools", title |-> "Favicon Tools", desc |-> "Generate and manage favicons.", icon |-> "FaIcons", path |-> "/favicon-tools", color |-> "text-violet-500"],
    [key |-> "json-tools", title |-> "JSON Tools", desc |-> "Format, validate, and edit JSON data.", icon |-> "FaBracketsCurly", path |-> "/json-tools", color |-> "text-gray-900"],
    [key |-> "gif-tools", title |-> "GIF Tools", desc |-> "Create and optimize GIF animations.", icon |-> "FaFileImage", path |-> "/gif-tools", color |-> "text-pink-600"]
 >>

templates == [TextToolTemplate |-> "TextToolTemplate"]

textTools ==
    << [category |-> categories.TEXT, slug |-> "case-converter",
        title |-> "Case Converter",
        shortDescription |-> "Convert text between upper/lower/camel case.",
        icon |-> "FaFont", template |-> templates.TextToolTemplate,
        logicLoader |-> "textTools.caseConverterLogic",
        id |-> "tool-case-converter",
        tags |-> <<"text", "conversion", "case">>,
        isHidden |-> FALSE, isExperimental |-> FALSE,
        handlerPath |-> "src/components/tools/CaseConverterTool.tsx"],
       [category |-> categories.TEXT, slug |-> "text-summarizer",
        title |-> "Text Summarizer",
        shortDescription |-> "Generate concise summaries of long text.",
        icon |-> "FaAlignJustify", template |-> templates.TextToolTemplate,
        logicLoader |-> "textTools.textSummarizer",
        id |-> "tool-text-summarizer",
        tags |-> <<"text", "summarization", "summary">>,
        isHidden |-> FALSE, isExperimental |-> FALSE,
        handlerPath |-> "src/components/tools/TextSummarizerTool.tsx"] >>

\* ./seo.tools is imported by config/index.ts; its one descriptor follows the
\* meta-tag-generator entry that the repository keeps for the SEO category.
seoTools ==
    << [category |-> categories.SEO, slug |-> "meta-tag-generator",
        title |-> "Meta Tag Generator",
        shortDescription |-> "Generate SEO-optimized meta tags.",
        icon |-> "FaSearch", template |-> templates.TextToolTemplate,
        logicLoader |-> "seoTools.metaTagGenerator",
        id |-> "tool-meta-tag-generator",
        tags |-> <<"seo", "meta tags", "optimization">>,
        isHidden |-> FALSE, isExperimental |-> FALSE,
        handlerPath |-> "src/components/tools/MetaTagGeneratorTool.tsx"] >>

\* export const tools = [...textTools, ...seoTools]
shippedTools == textTools \o seoTools

\* A descriptor of the InternalToolConfig shape whose logicLoader is an
\* arbitrary () => Promise<any>.
StubTool(slug, id, cat, hidden, loader) ==
    [category |-> cat, slug |-> slug, title |-> slug,
     shortDescription |-> slug, icon |-> "FaCog",
     template |-> templates.TextToolTemplate,
     logicLoader |-> loader, id |-> id, tags |-> <<"stub">>,
     isHidden |-> hidden, isExperimental |-> FALSE,
     handlerPath |-> "stub"]

\* A registry of descriptors with arbitrary loaders.
stubTools ==
    << StubTool("alpha", "tool-alpha", categories.TEXT, FALSE, "stub"),
       StubTool("beta", "tool-beta", categories.IMAGE, TRUE, "stubDefault") >>

\* The registries a behaviour can run against.
Registries == {shippedTools, stubTools}

\* Two descriptors with one slug (different ids, different loaders), and
\* two descriptors with different slugs and one id.
dupSlugTools ==
    << StubTool("alpha", "tool-alpha", categories.TEXT, FALSE, "stubDefault"),
       StubTool("alpha", "tool-alpha-2", categories.TEXT, FALSE, "stubOther") >>

dupIdTools ==
    << StubTool("alpha", "tool-shared", categories.TEXT, FALSE, "stubDefault"),
       StubTool("beta", "tool-shared", categories.IMAGE, FALSE, "stubOther") >>

ClashRegistries == {dupSlugTools, dupIdTools}

\* Descriptors per tool array of a configured registry.
MaxTools == 2

\* A descriptor with the optional internal fields of InternalToolConfig.
withInternals(tool) ==
    tool @@ [synonyms |-> <<"first">>, analyticsKey |-> "analytics-" \o tool.slug]

\* Descriptors a tool array can hold: a visible experimental one that sets
\* the optional internal fields, a hidden one in another category, a second
\* descriptor with the slug of the first, and a hidden one in its category.
toolPool ==
    { withInternals([StubTool("alpha", "tool-alpha", categories.TEXT, FALSE, "stub")
                        EXCEPT !.isExperimental = TRUE]),
      StubTool("beta", "tool-beta", categories.IMAGE, TRUE, "stubDefault"),
      [StubTool("alpha", "tool-alpha-2", categories.TEXT, FALSE, "stubDefault")
          EXCEPT !.title = "Alpha Two"],
      StubTool("delta", "tool-delta", categories.TEXT, TRUE, "stubDefault") }

\* The arrays a category file (text.tools, seo.tools) can export.
ToolArrays == UNION {[1..n -> toolPool] : n \in 0..MaxTools}

\* export const tools = [...textTools, ...seoTools] over any two arrays.
ConfiguredRegistries == {a \o b : a, b \in ToolArrays} \cup {shippedTools}

\* ----------------------------------------------------------------- loaders
Resolved(mod) == [ok |-> TRUE, mod |-> mod]

Rejected == [ok |-> FALSE, mod |-> << >>]

\* What an arbitrary loader can yield on its n-th invocation: a module whose
\* default export is not its first property, a module without a default, a
\* null default next to a named export, a non-callable default; or the
\* loader's promise rejects.
stubYields(n) ==
    { Resolved(<< Export("a", Fn("g", n)), Export("default", Fn("f", n)) >>),
      Resolved(<< Export("a", Fn("g", n)), Export("b", Fn("f", n)) >>),
      Resolved(<< Export("a", Fn("g", n)), Export("default", Null) >>),
      Resolved(<< Export("default", PlainObject) >>),
      Rejected }

\* tool.logicLoader(): the outcomes of the n-th invocation of a loader.
\* The shipped loaders wrap one property of an imported module as
\* { default: m.<name> }; the module system hands out the same module
\* object on every import.
logicLoader(name, n) ==
    CASE name = "textTools.caseConverterLogic" ->
           { Resolved(<< Export("default",
                                ModGet(textToolsModule, "caseConverterLogic")) >>) }
      [] name = "textTools.textSummarizer" ->
           { Resolved(<< Export("default",
                                ModGet(textToolsModule, "textSummarizer")) >>) }
      [] name = "seoTools.metaTagGenerator" ->
           { Resolved(<< Export("default",
                                ModGet(seoToolsModule, "metaTagGenerator")) >>) }
      [] name = "stubDefault" ->
           { Resolved(<< Export("default", Fn("h", n)) >>), Rejected }
      [] name = "stubOther" ->
           { Resolved(<< Export("default", Fn("k", n)) >>), Rejected }
      [] OTHER -> stubYields(n)

\* An extraction that ignores the default export.
ExtractLogicFirstOnly(mod) == FirstValue(mod)

\* mod.default ?? Object.values(mod)[0]
ExtractLogic(mod) ==
    IF ~IsNullish(ModGet(mod, "default"))
    THEN ModGet(mod, "default")
    ELSE FirstValue(mod)

\* ------------------------------------------------------------ the Map cache
\* _logicCache as the set of its [key, val] entries.
\* A cache check that looks the tool up under a key no entry is stored under.
CacheHasWrongKey(cache, id) == \E e \in cache : e.key = "slug:" \o id

CacheHas(cache, id) == \E e \in cache : e.key = id

CacheGet(cache, id) == (CHOOSE e \in cache : e.key = id).val

\* A cache that keeps the old entry of a key next to the new one.
CacheSetAppend(cache, id, fn) == cache \cup {[key |-> id, val |-> fn]}

\* Map.prototype.set: replaces the entry of an existing key.
CacheSet(cache, id, fn) ==
    {e \in cache : e.key # id} \cup {[key |-> id, val |-> fn]}

CacheKeys(cache) == {e.key : e \in cache}

\* ---------------------------------------------------------------- outcomes
\* How a call, or one invocation of tool logic, ends.
NoOutcome == [kind |-> "none", msg |-> "", fn |-> Undefined, args |-> << >>]

Thrown(msg) == [kind |-> "error", msg |-> msg, fn |-> Undefined, args |-> << >>]

\* The value a tool function computes for its arguments (opaque to the
\* dispatcher), or the error it throws.
Returns(fn, args) == [kind |-> "return", msg |-> "", fn |-> fn, args |-> args]

Throws(fn, args, msg) == [kind |-> "throw", msg |-> msg, fn |-> fn, args |-> args]

\* !value of validateTextInput / validateStringInput
Missing(args, i) == Len(args) < i \/ args[i] = ""

caseTypes == {"upper", "lower", "title", "sentence", "camel", "snake"}

\* logic(...args) for each function the loaders can yield.
Apply(fn, args) ==
    CASE fn.name = "caseConverter" ->
           IF Missing(args, 1)
           THEN Throws(fn, args, "Case Converter: Input text must be a non-empty string")
           ELSE IF Len(args) >= 2 /\ args[2] \in caseTypes
                THEN Returns(fn, args)
                ELSE Throws(fn, args, "Case Converter: Invalid case type")
      [] fn.name = "textSummarizer" ->
           IF Missing(args, 1)
           THEN Throws(fn, args, "Text Summarizer: Input text must be a non-empty string")
           ELSE Returns(fn, args)
      [] fn.name = "metaTagGenerator" ->
           IF Missing(args, 1)
           THEN Throws(fn, args, "Meta Tag Generator: Title must be a non-empty string")
           ELSE IF Missing(args, 2)
           THEN Throws(fn, args, "Meta Tag Generator: Description must be a non-empty string")
           ELSE IF Missing(args, 3)
           THEN Throws(fn, args, "Meta Tag Generator: Keywords must be a non-empty string")
           ELSE Returns(fn, args)
      [] OTHER -> Returns(fn, args)

\* -------------------------------------------------------------- audio tools
\* src/tools/audioTools.ts: mp3Cutter and noiseRemover process a file in a
\* Web Worker and fall back to the server for some client-side failures.
MAX_FILE_SIZE_MB == 100

\* ApiClient.MAX_RETRIES
MAX_RETRIES == 3

\* Progress messages a worker posts before its final message.
MaxProgress == 1

AudioTools == {"mp3Cutter", "noiseRemover"}

\* file.size in whole megabytes.
FileSizesMB == {1, 20, MAX_FILE_SIZE_MB, MAX_FILE_SIZE_MB + 1}

\* file.type as <<type, subtype>>: audio/mpeg, audio/ogg, text/plain.
FileTypes == {<<"audio", "mpeg">>, <<"audio", "ogg">>, <<"text", "plain">>}

\* navigator.deviceMemory in quarters of a gigabyte; 0 when the browser does
\* not report it (0.25 GB, 1 GB and 8 GB otherwise).
DeviceMemories == {0, 1, 4, 32}

\* The caller's onFallback argument: left out, a function that returns, or a
\* function that throws.
Callbacks == {"absent", "returns", "throws"}

\* The environment and the arguments of one call. `range` stands for the
\* tool's own numeric arguments being acceptable (startTime/endTime of
\* mp3Cutter, noiseReductionLevel of noiseRemover).
AudioInputs ==
    [supported : BOOLEAN, sizeMB : FileSizesMB, type : FileTypes,
     deviceMemory : DeviceMemories, range : BOOLEAN, onFallback : Callbacks]

NoCode == ""

\* checkBrowserSupport: the code it throws, NoCode if it returns.
checkBrowserSupport(in) == IF in.supported THEN NoCode ELSE "UNSUPPORTED_BROWSER"

\* checkMemoryLimits: estimatedMemoryUsageMB = sizeMB * 3 against
\* maxSafeMemoryMB = deviceMemory * 1024 * 0.2 (both sides times 20 here,
\* deviceMemory counted in quarters).
checkMemoryLimits(in) ==
    IF in.sizeMB > MAX_FILE_SIZE_MB
    THEN "FILE_SIZE_LIMIT_EXCEEDED"
    ELSE IF /\ in.deviceMemory # 0
            /\ in.deviceMemory < 8
            /\ in.sizeMB * 3 * 20 > in.deviceMemory * 1024
         THEN "MEMORY_LIMIT_EXCEEDED"
         ELSE NoCode

\* validateAudioFile
validateAudioFile(in) ==
    IF in.type[1] # "audio"
    THEN "INVALID_FILE_TYPE"
    ELSE IF in.type \notin {<<"audio", "mpeg">>, <<"audio", "mp3">>, <<"audio", "wav">>}
         THEN "UNSUPPORTED_FORMAT"
         ELSE NoCode

\* The check of the tool's numeric arguments.
checkArguments(tool, in) ==
    IF in.range THEN NoCode
    ELSE IF tool = "mp3Cutter" THEN "INVALID_TIME_RANGE" ELSE "INVALID_NOISE_LEVEL"

\* The synchronous part of the try block: the code of the first check that
\* throws, NoCode when the worker promise is created.
clientChecks(tool, in) ==
    IF checkBrowserSupport(in) # NoCode THEN checkBrowserSupport(in)
    ELSE IF checkMemoryLimits(in) # NoCode THEN checkMemoryLimits(in)
    ELSE IF validateAudioFile(in) # NoCode THEN validateAudioFile(in)
    ELSE checkArguments(tool, in)

idleInputs ==
    [supported |-> TRUE, sizeMB |-> 1, type |-> <<"audio", "mpeg">>,
     deviceMemory |-> 0, range |-> TRUE, onFallback |-> "absent"]

\* One call: its position, what the client-side attempt threw (clientCode),
\* how often onFallback was called, how many progress messages arrived, how
\* often apiClient.post was called, the axios requests that post sent and
\* how many of them failed, and how the call ended.
idleAudio ==
    [pc |-> "idle", tool |-> "", in |-> idleInputs, clientCode |-> NoCode,
     fallbackCalls |-> 0, progressCalls |-> 0, posts |-> 0, attempts |-> 0,
     failures |-> 0, result |-> "none", code |-> NoCode]

\* ------------------------------------------------------- other components
\* Overlapping mp3Cutter calls on the module-level mp3CutterWorker.
MaxCutters == 2

Cutters == 1..MaxCutters

\* The length of the cut in blocks of 100000 samples (newLength / 100000,
\* rounded up): the worker posts one progress message per block.
MaxBlocks == 2

\* A message from the worker: e.data.error ("" when the field is absent),
\* e.data.progress (<< >> when absent) and whether it carries blob, url and
\* duration; owner is the call whose file the worker was processing.
ErrorMsg(c, text) == [owner |-> c, error |-> text, progress |-> << >>, result |-> FALSE]

ProgressMsg(c, percent) ==
    [owner |-> c, error |-> "", progress |-> <<percent>>, result |-> FALSE]

ResultMsg(c) == [owner |-> c, error |-> "", progress |-> << >>, result |-> TRUE]

NoMsg == [owner |-> 0, error |-> "", progress |-> << >>, result |-> FALSE]

\* The data of worker.postMessage({ fileData, startTime, endTime }): whether
\* the worker can decode the file and the cut lies within its duration, and
\* the length of the cut.
CutJobs(c) == [owner : {c}, ok : BOOLEAN, blocks : 1..MaxBlocks]

NoJob == [owner |-> 0, ok |-> FALSE, blocks |-> 1]

\* self.onmessage of the worker: the messages it posts for one job. The
\* copy loop posts progress (i / newLength) * 100 at i = 0, 100000, ...,
\* then the result is posted; any exception is posted as { error }.
workerMessages(job) ==
    IF ~job.ok
    THEN << ErrorMsg(job.owner, "MP3 Cutter: exceeds audio duration") >>
    ELSE [k \in 1..job.blocks |->
            ProgressMsg(job.owner, ((k - 1) * 100) \div job.blocks)]
         \o << ResultMsg(job.owner) >>

\* JavaScript truthiness of e.data.error and e.data.progress.
TruthyError(msg) == msg.error # ""

TruthyProgress(msg) == msg.progress # << >> /\ msg.progress[1] # 0

pendingPromise == [state |-> "pending", data |-> NoMsg]

noPromise == [state |-> "none", data |-> NoMsg]

\* handler: the call whose closures are installed as worker.onmessage;
\* phase, job, promise, progressCalls: per call; jobs: posted to the worker
\* and not yet processed; inbox: worker messages not yet handled.
idleWorker ==
    [handler |-> 0,
     phase |-> [c \in Cutters |-> "idle"],
     job |-> [c \in Cutters |-> NoJob],
     promise |-> [c \in Cutters |-> noPromise],
     progressCalls |-> [c \in Cutters |-> 0],
     jobs |-> {},
     inbox |-> << >>]

\* utils/apiClient.ts: one ApiClient instance.
RATE_LIMIT_MS == 1000

\* Calls made on the instance when the server always answers.
MaxRateCalls == 3

ApiCalls == 1..MaxRateCalls

\* Calls made on the instance when requests can fail and are retried.
MaxApiCalls == 2

RetriedCalls == 1..MaxApiCalls

\* Date.now() moves in steps of half the rate limit, this many times.
MaxTicks == 3

ClockStep == RATE_LIMIT_MS \div 2

\* A rejected axios request: the error field of the response body ("" when
\* there is no response, no object body, or no non-empty error field), and
\* the AxiosError's message.
HttpFailures ==
    { [serverError |-> "Quota exceeded",
       transport |-> "Request failed with status code 429"],
      [serverError |-> "", transport |-> "Network Error"] }

NoFailure == [serverError |-> "", transport |-> ""]

\* errorMessage || axiosError.message || 'Unknown API error'
errorMessage(f) ==
    IF f.serverError # "" THEN f.serverError
    ELSE IF f.transport # "" THEN f.transport
    ELSE "Unknown API error"

\* One get/post call: wake is the due time of its rate-limit timer, leftAt
\* the time at which it left enforceRateLimit (0 before that), attempt the
\* loop variable, sent the requests handed to axios, answered the attempt
\* whose response was returned, lastFailure the rejection caught last.
idleApiCall ==
    [pc |-> "idle", method |-> "", wake |-> 0, leftAt |-> 0, attempt |-> 0,
     sent |-> 0, answered |-> 0, lastFailure |-> NoFailure,
     result |-> "none", message |-> ""]

\* The clock starts long after the epoch: the first call never waits.
idleApi ==
    [now |-> RATE_LIMIT_MS, ticks |-> 0, lastApiCall |-> 0,
     call |-> [c \in ApiCalls |-> idleApiCall]]

\* utils/apiUtils.ts: requests handled by handleAPIRoute at the same time.
MaxRequests == 2

Requests == 1..MaxRequests

Methods == {"GET", "POST", "PUT", "DELETE"}

\* res.status(code).json({ [key]: value })
Response(code, key, value) == [status |-> code, key |-> key, value |-> value]

\* What the route's handler returns or throws.
HandlerResults == {"result-a", "result-b"}

HandlerErrors == {"Invalid input"}

\* One request: limiter is what express-rate-limit did with it ("" before
\* that), handlerRuns counts handler(req.body), responses is what was sent.
idleRequest ==
    [pc |-> "idle", method |-> "", limiter |-> "", handlerRuns |-> 0,
     responses |-> << >>]

idleRoute == [r \in Requests |-> idleRequest]

\* components/templates/ConvertToolTemplate.tsx: the history keeps the last
\* HistoryLimit entries.
HistoryLimit == 10

\* The largest historyIndex the model lets addToHistory start from.
MaxIndex == 11

Texts == {"a"}

inputFormats == <<"json">>

outputFormats == <<"csv">>

FormatValues(formats) == {formats[i] : i \in 1..Len(formats)}

HistoryEntry(input, inputFormat, outputFormat) ==
    [input |-> input, inputFormat |-> inputFormat, outputFormat |-> outputFormat]

\* array.slice(0, end) for end >= 0
SliceTo(array, end) ==
    SubSeq(array, 1, IF end < Len(array) THEN end ELSE Len(array))

\* array.slice(-count)
SliceLast(array, count) ==
    IF Len(array) <= count THEN array
    ELSE SubSeq(array, Len(array) - count + 1, Len(array))

\* array[index]: "undefined" outside the array.
HasIndex(array, index) == index >= 0 /\ index < Len(array)

\* The component's state after the first render; lastRead is what the last
\* handleUndo or handleRedo found at the index it read.
idleConvert ==
    [input |-> "", inputFormat |-> inputFormats[1],
     outputFormat |-> outputFormats[1], history |-> << >>,
     historyIndex |-> -1, lastRead |-> "none"]

\* components/Card.tsx with lib/hooks.ts: the Card components on a page and
\* the clicks on one card's star.
MaxCards == 3

Cards == 1..MaxCards

MaxToggles == 2

\* The title prop of a card.
Title(c) == <<"tool", c>>

\* localStorage.getItem(key) of a key never set
NoItem == <<"null">>

JSONStringify(value) == <<"json", value>>

JSONParse(text) == text[2]

Includes(array, x) == \E i \in 1..Len(array) : array[i] = x

RECURSIVE Without(_, _)
\* array.filter((fav) => fav !== x)
Without(array, x) ==
    IF array = << >> THEN << >>
    ELSE IF array[1] = x THEN Without(Tail(array), x)
         ELSE <<array[1]>> \o Without(Tail(array), x)

\* One Card: value is the state of its own useLocalStorage hook; adds and
\* removes count the clicks that took each branch of toggleFavorite.
unmountedCard == [mounted |-> FALSE, value |-> << >>, adds |-> 0, removes |-> 0]

\* storage is the item under the key 'favorites'.
idleCards == [storage |-> NoItem, card |-> [c \in Cards |-> unmountedCard]]

\* ------------------------------------------------------------------- state
VARIABLES
    tools,          \* the registry (config/index.ts), fixed at start
    logicCache,     \* _logicCache
    calls,          \* the runTool calls: position and locals of each
    loadCount,      \* per registry index: invocations of its logicLoader
    invocations,    \* the log of logic(...args) invocations
    publicTools,    \* the last result of getPublicTools()
    uiCategories,   \* the last result of buildUICategories()
    toolsPublic,    \* the records written to public/tools-public.json
    audioCall,      \* the mp3Cutter / noiseRemover call in progress
    worker,         \* the shared mp3Cutter worker and the calls that use it
    api,            \* an ApiClient instance and the calls made on it
    route,          \* one request handled by handleAPIRoute
    convert,        \* the state of a ConvertToolTemplate component
    cards           \* localStorage and the mounted Card components

vars == <<tools, logicCache, calls, loadCount, invocations, publicTools,
          uiCategories, toolsPublic, audioCall, worker, api, route, convert,
          cards>>

\* The components next to the registry, the dispatcher and the audio call.
componentVars == <<worker, api, route, convert, cards>>

\* Nothing has been started on any of them.
ComponentsIdle ==
    /\ worker = idleWorker
    /\ api = idleApi
    /\ route = idleRoute
    /\ convert = idleConvert
    /\ cards = idleCards

idleCall ==
    [pc |-> "idle", slug |-> "", args |-> << >>, tool |-> 0, gen |-> 0,
     yielded |-> Rejected, logic |-> Undefined, outcome |-> NoOutcome,
     after |-> {}]

\* The slugs and argument lists callers pass to runTool.
SlugsOf(reg) == {reg[i].slug : i \in 1..Len(reg)} \cup {"does-not-exist"}

\* runTool("case-converter", "Hello World", {caseType: "upper"})
HelloArgs == <<"Hello World", "{caseType:upper}">>

\* The shipped tools validate their arguments, so they are also called
\* without any; the logic of a stub tool does not read its arguments.
ArgLists(slug) ==
    IF slug \in SlugsOf(shippedTools) THEN {HelloArgs, << >>} ELSE {HelloArgs}

Init ==
    /\ tools \in Registries
    /\ logicCache = {}
    /\ calls = [c \in Calls |-> idleCall]
    /\ loadCount = [i \in 1..Len(tools) |-> 0]
    /\ invocations = << >>
    /\ publicTools = << >>
    /\ uiCategories = << >>
    /\ toolsPublic = << >>
    /\ audioCall = idleAudio
    /\ ComponentsIdle

\* -------------------------------------------------------------- dispatcher
\* A lookup that falls back to the first descriptor.
FindToolOrFirst(reg, slug) ==
    IF \E i \in 1..Len(reg) : reg[i].slug = slug
    THEN CHOOSE i \in 1..Len(reg) :
           /\ reg[i].slug = slug
           /\ \A j \in 1..(i - 1) : reg[j].slug # slug
    ELSE 1

\* A lookup that returns the last descriptor with the slug.
FindToolLast(reg, slug) ==
    IF \E i \in 1..Len(reg) : reg[i].slug = slug
    THEN CHOOSE i \in 1..Len(reg) :
           /\ reg[i].slug = slug
           /\ \A j \in (i + 1)..Len(reg) : reg[j].slug # slug
    ELSE 0

\* tools.find((t) => t.slug === slug): index of the first match, 0 if none.
FindTool(reg, slug) ==
    IF \E i \in 1..Len(reg) : reg[i].slug = slug
    THEN CHOOSE i \in 1..Len(reg) :
           /\ reg[i].slug = slug
           /\ \A j \in 1..(i - 1) : reg[j].slug # slug
    ELSE 0

ToolNotFound(slug) == Thrown("Tool not found: " \o slug)

ToolLogicMissing(id) == Thrown("Tool logic not found for " \o id)

LoaderRejected == [kind |-> "rejected", msg |-> "loader rejected", fn |-> Undefined, args |-> << >>]

Done == {c \in Calls : calls[c].pc = "done"}

\* runTool(slug, ...args) up to its first suspension: the lookup, and the
\* synchronous part of loadToolLogic (cache check, loader invocation).
RunTool(c, slug, args) ==
    /\ calls[c].pc = "idle"
    /\ c > 1 => calls[c - 1].pc # "idle"
    /\ LET i == FindTool(tools, slug)
           started == [idleCall EXCEPT !.slug = slug, !.args = args,
                                      !.tool = i, !.after = Done]
       IN IF i = 0
          THEN /\ calls' = [calls EXCEPT ![c] =
                              [started EXCEPT !.pc = "done",
                                              !.outcome = ToolNotFound(slug)]]
               /\ UNCHANGED loadCount
          ELSE IF CacheHas(logicCache, tools[i].id)
          THEN /\ calls' = [calls EXCEPT ![c] =
                              [started EXCEPT !.pc = "resolved",
                                              !.logic = CacheGet(logicCache, tools[i].id)]]
               /\ UNCHANGED loadCount
          ELSE /\ calls' = [calls EXCEPT ![c] =
                              [started EXCEPT !.pc = "loading",
                                              !.gen = loadCount[i] + 1]]
               /\ loadCount' = [loadCount EXCEPT ![i] = @ + 1]
    /\ UNCHANGED <<componentVars, toolsPublic, audioCall, tools, logicCache, invocations, publicTools, uiCategories>>

\* A continuation without the typeof check: whatever was extracted is cached
\* and returned.
LoaderSettlesUnchecked(c, out) ==
    /\ calls[c].pc = "loading"
    /\ LET id == tools[calls[c].tool].id
           fn == ExtractLogic(out.mod)
           seen == [calls[c] EXCEPT !.yielded = out]
       IN IF ~out.ok
          THEN /\ calls' = [calls EXCEPT ![c] =
                              [seen EXCEPT !.pc = "done", !.outcome = LoaderRejected]]
               /\ UNCHANGED logicCache
          ELSE /\ calls' = [calls EXCEPT ![c] =
                              [seen EXCEPT !.pc = "resolved", !.logic = fn]]
               /\ logicCache' = CacheSet(logicCache, id, fn)
    /\ UNCHANGED <<componentVars, toolsPublic, audioCall, tools, loadCount, invocations, publicTools, uiCategories>>

\* A continuation that stores the extracted value before the typeof check.
LoaderSettlesCachesFailure(c, out) ==
    /\ calls[c].pc = "loading"
    /\ LET id == tools[calls[c].tool].id
           fn == ExtractLogic(out.mod)
           seen == [calls[c] EXCEPT !.yielded = out]
       IN IF ~out.ok
          THEN /\ calls' = [calls EXCEPT ![c] =
                              [seen EXCEPT !.pc = "done", !.outcome = LoaderRejected]]
               /\ UNCHANGED logicCache
          ELSE IF ~IsFunction(fn)
          THEN /\ calls' = [calls EXCEPT ![c] =
                              [seen EXCEPT !.pc = "done",
                                           !.outcome = ToolLogicMissing(id)]]
               /\ logicCache' = CacheSet(logicCache, id, fn)
          ELSE /\ calls' = [calls EXCEPT ![c] =
                              [seen EXCEPT !.pc = "resolved", !.logic = fn]]
               /\ logicCache' = CacheSet(logicCache, id, fn)
    /\ UNCHANGED <<componentVars, toolsPublic, audioCall, tools, loadCount, invocations, publicTools, uiCategories>>

\* A continuation that waits for the loaders of all earlier calls.
LoaderSettlesInOrder(c, out) ==
    /\ calls[c].pc = "loading"
    /\ \A d \in Calls : d < c => calls[d].pc # "loading"
    /\ LET id == tools[calls[c].tool].id
           fn == ExtractLogic(out.mod)
           seen == [calls[c] EXCEPT !.yielded = out]
       IN IF ~out.ok
          THEN /\ calls' = [calls EXCEPT ![c] =
                              [seen EXCEPT !.pc = "done", !.outcome = LoaderRejected]]
               /\ UNCHANGED logicCache
          ELSE IF ~IsFunction(fn)
          THEN /\ calls' = [calls EXCEPT ![c] =
                              [seen EXCEPT !.pc = "done",
                                           !.outcome = ToolLogicMissing(id)]]
               /\ UNCHANGED logicCache
          ELSE /\ calls' = [calls EXCEPT ![c] =
                              [seen EXCEPT !.pc = "resolved", !.logic = fn]]
               /\ logicCache' = CacheSet(logicCache, id, fn)
    /\ UNCHANGED <<componentVars, toolsPublic, audioCall, tools, loadCount, invocations, publicTools, uiCategories>>

\* The continuation of loadToolLogic after `await tool.logicLoader()`: the
\* loader's promise settles with `out`.
LoaderSettles(c, out) ==
    /\ calls[c].pc = "loading"
    /\ LET id == tools[calls[c].tool].id
           fn == ExtractLogic(out.mod)
           seen == [calls[c] EXCEPT !.yielded = out]
       IN IF ~out.ok
          THEN /\ calls' = [calls EXCEPT ![c] =
                              [seen EXCEPT !.pc = "done", !.outcome = LoaderRejected]]
               /\ UNCHANGED logicCache
          ELSE IF ~IsFunction(fn)
          THEN /\ calls' = [calls EXCEPT ![c] =
                              [seen EXCEPT !.pc = "done",
                                           !.outcome = ToolLogicMissing(id)]]
               /\ UNCHANGED logicCache
          ELSE /\ calls' = [calls EXCEPT ![c] =
                              [seen EXCEPT !.pc = "resolved", !.logic = fn]]
               /\ logicCache' = CacheSet(logicCache, id, fn)
    /\ UNCHANGED <<componentVars, toolsPublic, audioCall, tools, loadCount, invocations, publicTools, uiCategories>>

\* An invocation that drops the tool's cache entry when the logic fails.
InvokeLogicEvicts(c) ==
    /\ calls[c].pc = "resolved"
    /\ invocations' = Append(invocations,
                             [call |-> c, fn |-> calls[c].logic, args |-> calls[c].args])
    /\ calls' = [calls EXCEPT ![c].pc = "done",
                              ![c].outcome = Apply(calls[c].logic, calls[c].args)]
    /\ logicCache' =
          IF Apply(calls[c].logic, calls[c].args).kind = "throw"
          THEN {e \in logicCache : e.key # tools[calls[c].tool].id}
          ELSE logicCache
    /\ UNCHANGED <<componentVars, toolsPublic, audioCall, tools, loadCount, publicTools, uiCategories>>

\* An invocation that calls the logic a second time when it fails.
InvokeLogicRetry(c) ==
    /\ calls[c].pc = "resolved"
    /\ LET inv == [call |-> c, fn |-> calls[c].logic, args |-> calls[c].args]
       IN invocations' =
             IF Apply(calls[c].logic, calls[c].args).kind = "throw"
             THEN invocations \o <<inv, inv>>
             ELSE Append(invocations, inv)
    /\ calls' = [calls EXCEPT ![c].pc = "done",
                              ![c].outcome = Apply(calls[c].logic, calls[c].args)]
    /\ UNCHANGED <<componentVars, toolsPublic, audioCall, tools, logicCache, loadCount, publicTools, uiCategories>>

\* return logic(...args)
InvokeLogic(c) ==
    /\ calls[c].pc = "resolved"
    /\ invocations' = Append(invocations,
                             [call |-> c, fn |-> calls[c].logic, args |-> calls[c].args])
    /\ calls' = [calls EXCEPT ![c].pc = "done",
                              ![c].outcome = Apply(calls[c].logic, calls[c].args)]
    /\ UNCHANGED <<componentVars, toolsPublic, audioCall, tools, logicCache, loadCount, publicTools, uiCategories>>

\* ----------------------------------------------------------- registry views
internalFields == {"logicLoader", "synonyms", "handlerPath", "analyticsKey"}

\* A projection that strips the loader only.
toPublicToolConfigLoaderOnly(tool) ==
    [k \in (DOMAIN tool) \ {"logicLoader"} |-> tool[k]]

\* const { logicLoader, synonyms, handlerPath, analyticsKey, ...rest } = tool
toPublicToolConfig(tool) ==
    [k \in (DOMAIN tool) \ internalFields |-> tool[k]]

\* A listing that leaves hidden descriptors out.
getPublicToolsVisible(reg) ==
    LET Visible(t) == ~t.isHidden
        kept == SelectSeq(reg, Visible)
    IN [i \in 1..Len(kept) |-> toPublicToolConfig(kept[i])]

\* tools.map(toPublicToolConfig)
getPublicTools(reg) == [i \in 1..Len(reg) |-> toPublicToolConfig(reg[i])]

uiTool(t) ==
    [id |-> t.id, slug |-> t.slug, title |-> t.title,
     shortDescription |-> t.shortDescription, icon |-> t.icon,
     path |-> "/" \o t.slug]

\* An index that leaves out the categories without tools.
buildUICategoriesNonEmpty(reg) ==
    LET pub == getPublicTools(reg)
        all == [n \in 1..Len(categoryMeta) |->
                  LET cat == categoryMeta[n]
                      Keep(t) == t.category = cat.key /\ ~t.isHidden
                      kept == SelectSeq(pub, Keep)
                  IN [key |-> cat.key, title |-> cat.title, desc |-> cat.desc,
                      icon |-> cat.icon, path |-> cat.path, color |-> cat.color,
                      tools |-> [j \in 1..Len(kept) |-> uiTool(kept[j])]]]
        NonEmpty(c) == c.tools # << >>
    IN SelectSeq(all, NonEmpty)

\* An index that lists hidden tools as well.
buildUICategoriesWithHidden(reg) ==
    LET pub == getPublicTools(reg)
    IN [n \in 1..Len(categoryMeta) |->
          LET cat == categoryMeta[n]
              Keep(t) == t.category = cat.key
              kept == SelectSeq(pub, Keep)
          IN [key |-> cat.key, title |-> cat.title, desc |-> cat.desc,
              icon |-> cat.icon, path |-> cat.path, color |-> cat.color,
              tools |-> [j \in 1..Len(kept) |-> uiTool(kept[j])]]]

\* categoryMeta.map(cat => ({...cat, tools: publicTools.filter(...).map(...)}))
buildUICategories(reg) ==
    LET pub == getPublicTools(reg)
    IN [n \in 1..Len(categoryMeta) |->
          LET cat == categoryMeta[n]
              Keep(t) == t.category = cat.key /\ ~t.isHidden
              kept == SelectSeq(pub, Keep)
          IN [key |-> cat.key, title |-> cat.title, desc |-> cat.desc,
              icon |-> cat.icon, path |-> cat.path, color |-> cat.color,
              tools |-> [j \in 1..Len(kept) |-> uiTool(kept[j])]]]

\* A listing that puts the tools whose logic is cached first.
GetPublicToolsCachedFirst ==
    /\ publicTools' =
          LET pub == getPublicTools(tools)
              Cached(t) == CacheHas(logicCache, t.id)
              NotCached(t) == ~CacheHas(logicCache, t.id)
          IN SelectSeq(pub, Cached) \o SelectSeq(pub, NotCached)
    /\ publicTools' # publicTools
    /\ UNCHANGED <<componentVars, toolsPublic, audioCall, tools, logicCache, calls, loadCount, invocations, uiCategories>>

\* A listing that invokes every descriptor's loader up front.
GetPublicToolsPreload ==
    /\ publicTools' = getPublicTools(tools)
    /\ publicTools' # publicTools
    /\ loadCount' = [i \in DOMAIN loadCount |-> loadCount[i] + 1]
    /\ UNCHANGED <<componentVars, toolsPublic, audioCall, tools, logicCache, calls, invocations, uiCategories>>

GetPublicTools ==
    /\ publicTools' = getPublicTools(tools)
    /\ publicTools' # publicTools
    /\ UNCHANGED <<componentVars, toolsPublic, audioCall, tools, logicCache, calls, loadCount, invocations, uiCategories>>

BuildUICategories ==
    /\ uiCategories' = buildUICategories(tools)
    /\ uiCategories' # uiCategories
    /\ UNCHANGED <<componentVars, toolsPublic, audioCall, tools, logicCache, calls, loadCount, invocations, publicTools>>

\* scripts/build-tools-public.ts: publicIndex, the array serialized to
\* public/tools-public.json. Every field of a record is a string or an array
\* of strings, which JSON.stringify keeps as they are.
publicIndexRecord(t) ==
    [id |-> t.id, title |-> t.title, slug |-> t.slug, category |-> t.category,
     shortDescription |-> t.shortDescription, tags |-> t.tags]

\* An export of every descriptor, hidden ones included.
publicIndexAll(reg) == [j \in 1..Len(reg) |-> publicIndexRecord(reg[j])]

\* tools.filter(t => !t.isHidden).map(t => ({...}))
publicIndex(reg) ==
    LET Visible(t) == ~t.isHidden
        kept == SelectSeq(reg, Visible)
    IN [j \in 1..Len(kept) |-> publicIndexRecord(kept[j])]

BuildToolsPublic ==
    /\ toolsPublic' = publicIndex(tools)
    /\ toolsPublic' # toolsPublic
    /\ UNCHANGED <<componentVars, audioCall, tools, logicCache, calls, loadCount, invocations,
                   publicTools, uiCategories>>

\* ---------------------------------------------- audio tools: one call
registryVars ==
    <<tools, logicCache, calls, loadCount, invocations, publicTools,
      uiCategories, toolsPublic>>

\* The codes for which the catch block goes to the server.
fallbackCodes ==
    {"UNSUPPORTED_BROWSER", "FILE_SIZE_LIMIT_EXCEEDED", "MEMORY_LIMIT_EXCEEDED"}

\* The call ends by throwing an error with this code.
Rethrown(call, code) == [call EXCEPT !.pc = "done", !.result = "throws", !.code = code]

\* A catch block that goes to the server whatever the client-side error was.
CaughtAnyCode(call, code) ==
    LET seen == [call EXCEPT !.clientCode = code]
    IN IF seen.in.onFallback = "absent"
       THEN [seen EXCEPT !.pc = "posting", !.posts = @ + 1, !.attempts = 1]
       ELSE IF seen.in.onFallback = "throws"
       THEN Rethrown([seen EXCEPT !.fallbackCalls = @ + 1], "CALLBACK_ERROR")
       ELSE [seen EXCEPT !.fallbackCalls = @ + 1, !.pc = "posting",
                         !.posts = @ + 1, !.attempts = 1]

\* catch (error) { ... }: for a fallback code, onFallback is called if it was
\* supplied (an exception of it leaves the function), then apiClient.post is
\* called, which sends its first request; any other error is thrown again.
Caught(call, code) ==
    LET seen == [call EXCEPT !.clientCode = code]
    IN IF code \notin fallbackCodes
       THEN Rethrown(seen, code)
       ELSE IF seen.in.onFallback = "absent"
       THEN [seen EXCEPT !.pc = "posting", !.posts = @ + 1, !.attempts = 1]
       ELSE IF seen.in.onFallback = "throws"
       THEN Rethrown([seen EXCEPT !.fallbackCalls = @ + 1], "CALLBACK_ERROR")
       ELSE [seen EXCEPT !.fallbackCalls = @ + 1, !.pc = "posting",
                         !.posts = @ + 1, !.attempts = 1]

\* mp3Cutter(file, ...) / noiseRemover(file, ...) up to the first await: the
\* checks, and either the worker promise with reader.readAsArrayBuffer or
\* the catch block.
StartAudio(tool, in) ==
    /\ audioCall.pc = "idle"
    /\ LET started == [audioCall EXCEPT !.tool = tool, !.in = in]
       IN audioCall' =
             IF clientChecks(tool, in) = NoCode
             THEN [started EXCEPT !.pc = "reading"]
             ELSE Caught(started, clientChecks(tool, in))
    /\ UNCHANGED <<registryVars, componentVars>>

\* reader.onload: the file's bytes are posted to the worker.
ReaderLoads ==
    /\ audioCall.pc = "reading"
    /\ audioCall' = [audioCall EXCEPT !.pc = "working"]
    /\ UNCHANGED <<registryVars, componentVars>>

\* reader.onerror
ReaderFails ==
    /\ audioCall.pc = "reading"
    /\ audioCall' = Caught(audioCall, "FILE_READ_ERROR")
    /\ UNCHANGED <<registryVars, componentVars>>

\* worker.onmessage with e.data.progress
WorkerProgress ==
    /\ audioCall.pc = "working"
    /\ audioCall.progressCalls < MaxProgress
    /\ audioCall' = [audioCall EXCEPT !.progressCalls = @ + 1]
    /\ UNCHANGED <<registryVars, componentVars>>

\* worker.onmessage with the result: the promise resolves and the call
\* returns it.
WorkerResult ==
    /\ audioCall.pc = "working"
    /\ audioCall' = [audioCall EXCEPT !.pc = "done", !.result = "client"]
    /\ UNCHANGED <<registryVars, componentVars>>

\* worker.onmessage with e.data.error, or worker.onerror
WorkerFails ==
    /\ audioCall.pc = "working"
    /\ audioCall' = Caught(audioCall, "WORKER_ERROR")
    /\ UNCHANGED <<registryVars, componentVars>>

\* axios.post resolves: apiClient.post returns the response and the call
\* returns the server's result.
RequestSucceeds ==
    /\ audioCall.pc = "posting"
    /\ audioCall' = [audioCall EXCEPT !.pc = "done", !.result = "server"]
    /\ UNCHANGED <<registryVars, componentVars>>

\* axios.post rejects: apiClient.post sends the request again until
\* MAX_RETRIES attempts have failed, then throws, and the inner catch wraps
\* the error as SERVER_ERROR.
RequestFails ==
    /\ audioCall.pc = "posting"
    /\ audioCall' =
          IF audioCall.attempts = MAX_RETRIES
          THEN Rethrown([audioCall EXCEPT !.failures = @ + 1], "SERVER_ERROR")
          ELSE [audioCall EXCEPT !.failures = @ + 1, !.attempts = @ + 1]
    /\ UNCHANGED <<registryVars, componentVars>>

AudioInit ==
    /\ tools = shippedTools
    /\ logicCache = {}
    /\ calls = [c \in Calls |-> idleCall]
    /\ loadCount = [i \in 1..Len(tools) |-> 0]
    /\ invocations = << >>
    /\ publicTools = << >>
    /\ uiCategories = << >>
    /\ toolsPublic = << >>
    /\ audioCall = idleAudio
    /\ ComponentsIdle

AudioNext ==
    \/ \E tool \in AudioTools : \E in \in AudioInputs : StartAudio(tool, in)
    \/ ReaderLoads
    \/ ReaderFails
    \/ WorkerProgress
    \/ WorkerResult
    \/ WorkerFails
    \/ RequestSucceeds
    \/ RequestFails

AudioSpec == AudioInit /\ [][AudioNext]_vars

\* ------------------------------------------- audio tools: the shared worker
exceptWorker == <<registryVars, audioCall, api, route, convert, cards>>

\* The executor of `new Promise` in mp3Cutter: the reader's handlers and the
\* worker's onmessage/onerror are assigned, and the file read is started.
StartCut(c, job) ==
    /\ worker.phase[c] = "idle"
    /\ worker' = [worker EXCEPT !.phase[c] = "reading", !.job[c] = job,
                                !.promise[c] = pendingPromise,
                                !.handler = c]
    /\ UNCHANGED exceptWorker

\* reader.onload: mp3CutterWorker.postMessage({ fileData, startTime, endTime })
FileLoaded(c) ==
    /\ worker.phase[c] = "reading"
    /\ worker' = [worker EXCEPT !.phase[c] = "posted",
                                !.jobs = @ \cup {worker.job[c]}]
    /\ UNCHANGED exceptWorker

\* The worker finishes one job: after the awaited decodeAudioData, its
\* messages for the job are posted without interruption.
WorkerRuns(job) ==
    /\ job \in worker.jobs
    /\ worker' = [worker EXCEPT !.jobs = @ \ {job},
                                !.inbox = @ \o workerMessages(job)]
    /\ UNCHANGED exceptWorker

\* resolve / reject of a promise: no effect once it is settled.
Settle(promise, state, msg) ==
    IF promise.state = "pending" THEN [state |-> state, data |-> msg] ELSE promise

\* mp3CutterWorker.onmessage, as assigned by the latest call:
\* if (e.data.error) reject; else if (e.data.progress) onProgress;
\* else resolve(e.data)
WorkerMessage ==
    /\ worker.inbox # << >>
    /\ LET msg == Head(worker.inbox)
           h == worker.handler
       IN worker' =
             IF TruthyError(msg)
             THEN [worker EXCEPT !.inbox = Tail(@),
                     !.promise[h] = Settle(@, "rejected", msg)]
             ELSE IF TruthyProgress(msg)
             THEN [worker EXCEPT !.inbox = Tail(@), !.progressCalls[h] = @ + 1]
             ELSE [worker EXCEPT !.inbox = Tail(@),
                     !.promise[h] = Settle(@, "resolved", msg)]
    /\ UNCHANGED exceptWorker

WorkerInit ==
    /\ tools = shippedTools
    /\ logicCache = {}
    /\ calls = [c \in Calls |-> idleCall]
    /\ loadCount = [i \in 1..Len(tools) |-> 0]
    /\ invocations = << >>
    /\ publicTools = << >>
    /\ uiCategories = << >>
    /\ toolsPublic = << >>
    /\ audioCall = idleAudio
    /\ ComponentsIdle

WorkerNext ==
    \/ \E c \in Cutters : \E job \in CutJobs(c) : StartCut(c, job)
    \/ \E c \in Cutters : FileLoaded(c)
    \/ \E job \in worker.jobs : WorkerRuns(job)
    \/ WorkerMessage

WorkerSpec == WorkerInit /\ [][WorkerNext]_vars

\* --------------------------------------------------------------- ApiClient
exceptApi == <<registryVars, audioCall, worker, route, convert, cards>>

\* The body of the retry loop is entered for the value of `attempt`, or the
\* loop is left and the trailing throw is reached.
LoopTest(call) ==
    IF call.attempt <= MAX_RETRIES
    THEN [call EXCEPT !.pc = "requesting", !.sent = @ + 1]
    ELSE [call EXCEPT !.pc = "done", !.result = "throws",
                      !.message = "Max retries exceeded"]

\* get(url) / post(url, data) up to the first timer or request:
\* enforceRateLimit either starts a timer for the rest of the rate-limit
\* window or stamps lastApiCall at once and the first request is sent.
ApiCall(c, method) ==
    /\ api.call[c].pc = "idle"
    /\ c > 1 => api.call[c - 1].pc # "idle"
    /\ LET started == [api.call[c] EXCEPT !.method = method]
           since == api.now - api.lastApiCall
       IN api' =
             IF since < RATE_LIMIT_MS
             THEN [api EXCEPT !.call[c] =
                     [started EXCEPT !.pc = "limiting",
                                     !.wake = api.now + (RATE_LIMIT_MS - since)]]
             ELSE [api EXCEPT !.lastApiCall = api.now,
                     !.call[c] = LoopTest([started EXCEPT !.leftAt = api.now,
                                                          !.attempt = 1])]
    /\ UNCHANGED exceptApi

\* The setTimeout of enforceRateLimit fires (at its due time or later):
\* this.lastApiCall = Date.now(), and the first request is sent.
RateLimitTimer(c) ==
    /\ api.call[c].pc = "limiting"
    /\ api.now >= api.call[c].wake
    /\ api' = [api EXCEPT !.lastApiCall = api.now,
                 !.call[c] = LoopTest([@ EXCEPT !.leftAt = api.now, !.attempt = 1])]
    /\ UNCHANGED exceptApi

\* axios resolves: the call returns { data, status } of this attempt.
HttpSuccess(c) ==
    /\ api.call[c].pc = "requesting"
    /\ api' = [api EXCEPT !.call[c] =
                 [@ EXCEPT !.pc = "done", !.result = "returns",
                           !.answered = api.call[c].attempt]]
    /\ UNCHANGED exceptApi

\* A catch block that gives up one attempt too late.
HttpFailureOffByOne(c, f) ==
    /\ api.call[c].pc = "requesting"
    /\ api' = [api EXCEPT !.call[c] =
                 IF @.attempt = MAX_RETRIES + 1
                 THEN [@ EXCEPT !.pc = "done", !.result = "throws",
                                !.lastFailure = f, !.message = errorMessage(f)]
                 ELSE [@ EXCEPT !.pc = "backoff", !.lastFailure = f]]
    /\ UNCHANGED exceptApi

\* axios rejects: on the last attempt the error is thrown, otherwise the
\* call waits 1000 * attempt ms.
HttpFailure(c, f) ==
    /\ api.call[c].pc = "requesting"
    /\ api' = [api EXCEPT !.call[c] =
                 IF @.attempt = MAX_RETRIES
                 THEN [@ EXCEPT !.pc = "done", !.result = "throws",
                                !.lastFailure = f, !.message = errorMessage(f)]
                 ELSE [@ EXCEPT !.pc = "backoff", !.lastFailure = f]]
    /\ UNCHANGED exceptApi

\* The backoff timer fires (the length of the wait is left open): attempt++
\* and the loop test.
BackoffTimer(c) ==
    /\ api.call[c].pc = "backoff"
    /\ api' = [api EXCEPT !.call[c] = LoopTest([@ EXCEPT !.attempt = @ + 1])]
    /\ UNCHANGED exceptApi

\* Time passes.
ClockAdvances ==
    /\ api.ticks < MaxTicks
    /\ api' = [api EXCEPT !.now = @ + ClockStep, !.ticks = @ + 1]
    /\ UNCHANGED exceptApi

ApiInit ==
    /\ tools = shippedTools
    /\ logicCache = {}
    /\ calls = [c \in Calls |-> idleCall]
    /\ loadCount = [i \in 1..Len(tools) |-> 0]
    /\ invocations = << >>
    /\ publicTools = << >>
    /\ uiCategories = << >>
    /\ toolsPublic = << >>
    /\ audioCall = idleAudio
    /\ ComponentsIdle

ApiNext ==
    \/ \E c \in RetriedCalls : \E method \in {"get", "post"} : ApiCall(c, method)
    \/ \E c \in RetriedCalls : RateLimitTimer(c)
    \/ \E c \in RetriedCalls : HttpSuccess(c)
    \/ \E c \in RetriedCalls : \E f \in HttpFailures : HttpFailure(c, f)
    \/ \E c \in RetriedCalls : BackoffTimer(c)
    \/ ClockAdvances

ApiSpec == ApiInit /\ [][ApiNext]_vars

\* Overlapping calls against a server that answers every request.
RateNext ==
    \/ \E c \in ApiCalls : \E method \in {"get", "post"} : ApiCall(c, method)
    \/ \E c \in ApiCalls : RateLimitTimer(c)
    \/ \E c \in ApiCalls : HttpSuccess(c)
    \/ ClockAdvances

RateSpec == ApiInit /\ [][RateNext]_vars

\* ----------------------------------------------------------- handleAPIRoute
exceptRoute == <<registryVars, audioCall, worker, api, convert, cards>>

Send(req, response) == [req EXCEPT !.responses = Append(@, response)]

\* handleAPIRoute(req, res, handler, endpointName) up to
\* `await applyRateLimit(req, res)`.
Receive(r, method) ==
    /\ route[r].pc = "idle"
    /\ r > 1 => route[r - 1].pc # "idle"
    /\ route' = [route EXCEPT ![r] = [@ EXCEPT !.pc = "limiting", !.method = method]]
    /\ UNCHANGED exceptRoute

\* A continuation that runs the handler whatever the method is.
LimiterPassesAnyMethod(r) ==
    /\ route[r].pc = "limiting"
    /\ route' = [route EXCEPT ![r] =
                   [@ EXCEPT !.limiter = "pass", !.pc = "handling",
                             !.handlerRuns = @ + 1]]
    /\ UNCHANGED exceptRoute

\* The limiter calls next(): applyRateLimit resolves; a request that is not
\* a POST is answered with 405, otherwise handler(req.body) is called.
LimiterPasses(r) ==
    /\ route[r].pc = "limiting"
    /\ route' = [route EXCEPT ![r] =
                   IF @.method # "POST"
                   THEN Send([@ EXCEPT !.limiter = "pass", !.pc = "done"],
                             Response(405, "error", "Method not allowed"))
                   ELSE [@ EXCEPT !.limiter = "pass", !.pc = "handling",
                                  !.handlerRuns = @ + 1]]
    /\ UNCHANGED exceptRoute

\* The limit is exceeded: the limiter's handler answers 429 and next is not
\* called, so the promise of applyRateLimit stays pending.
LimiterRejects(r) ==
    /\ route[r].pc = "limiting"
    /\ route' = [route EXCEPT ![r] =
                   Send([@ EXCEPT !.limiter = "limited", !.pc = "pending"],
                        Response(429, "error",
                                 "Too many requests, please try again later."))]
    /\ UNCHANGED exceptRoute

\* The limiter calls next(err): applyRateLimit rejects and the catch block
\* answers 500.
LimiterErrors(r) ==
    /\ route[r].pc = "limiting"
    /\ route' = [route EXCEPT ![r] =
                   Send([@ EXCEPT !.limiter = "error", !.pc = "done"],
                        Response(500, "error", "store unavailable"))]
    /\ UNCHANGED exceptRoute

\* The handler's promise resolves: res.status(200).json({ data: result })
HandlerReturns(r, result) ==
    /\ route[r].pc = "handling"
    /\ route' = [route EXCEPT ![r] =
                   Send([@ EXCEPT !.pc = "done"], Response(200, "data", result))]
    /\ UNCHANGED exceptRoute

\* The handler throws or rejects: res.status(500).json({ error: error.message })
HandlerThrows(r, message) ==
    /\ route[r].pc = "handling"
    /\ route' = [route EXCEPT ![r] =
                   Send([@ EXCEPT !.pc = "done"], Response(500, "error", message))]
    /\ UNCHANGED exceptRoute

RouteInit ==
    /\ tools = shippedTools
    /\ logicCache = {}
    /\ calls = [c \in Calls |-> idleCall]
    /\ loadCount = [i \in 1..Len(tools) |-> 0]
    /\ invocations = << >>
    /\ publicTools = << >>
    /\ uiCategories = << >>
    /\ toolsPublic = << >>
    /\ audioCall = idleAudio
    /\ ComponentsIdle

RouteNext ==
    \/ \E r \in Requests : \E method \in Methods : Receive(r, method)
    \/ \E r \in Requests : LimiterPasses(r)
    \/ \E r \in Requests : LimiterRejects(r)
    \/ \E r \in Requests : LimiterErrors(r)
    \/ \E r \in Requests : \E result \in HandlerResults : HandlerReturns(r, result)
    \/ \E r \in Requests : \E message \in HandlerErrors : HandlerThrows(r, message)

RouteSpec == RouteInit /\ [][RouteNext]_vars

\* ----------------------------------------------------------- ConvertToolTemplate
exceptConvert == <<registryVars, audioCall, worker, api, route, cards>>

\* addToHistory(newInput, newInputFormat, newOutputFormat, newOptions)
addToHistory(state, input, inputFormat, outputFormat) ==
    [state EXCEPT
        !.history = SliceLast(Append(SliceTo(@, state.historyIndex + 1),
                                     HistoryEntry(input, inputFormat, outputFormat)),
                              HistoryLimit),
        !.historyIndex = @ + 1,
        !.lastRead = "none"]

\* handleTextChange / handleFileChange with an accepted value
HandleInputChange(value) ==
    /\ convert.historyIndex < MaxIndex
    /\ convert' = addToHistory([convert EXCEPT !.input = value], value,
                               convert.inputFormat, convert.outputFormat)
    /\ UNCHANGED exceptConvert

\* onChange of the input format select
InputFormatChange(value) ==
    /\ convert.historyIndex < MaxIndex
    /\ convert' = addToHistory([convert EXCEPT !.inputFormat = value],
                               convert.input, value, convert.outputFormat)
    /\ UNCHANGED exceptConvert

\* onChange of the output format select
OutputFormatChange(value) ==
    /\ convert.historyIndex < MaxIndex
    /\ convert' = addToHistory([convert EXCEPT !.outputFormat = value],
                               convert.input, convert.inputFormat, value)
    /\ UNCHANGED exceptConvert

\* handleUndo: reading a field of an undefined entry throws before any state
\* is set.
HandleUndo ==
    /\ convert.historyIndex > 0
    /\ convert' =
          IF HasIndex(convert.history, convert.historyIndex - 1)
          THEN LET prevState == convert.history[convert.historyIndex]
               IN [convert EXCEPT !.input = prevState.input,
                                  !.inputFormat = prevState.inputFormat,
                                  !.outputFormat = prevState.outputFormat,
                                  !.historyIndex = @ - 1,
                                  !.lastRead = "entry"]
          ELSE [convert EXCEPT !.lastRead = "undefined"]
    /\ UNCHANGED exceptConvert

\* handleRedo
HandleRedo ==
    /\ convert.historyIndex < Len(convert.history) - 1
    /\ convert' =
          IF HasIndex(convert.history, convert.historyIndex + 1)
          THEN LET nextState == convert.history[convert.historyIndex + 2]
               IN [convert EXCEPT !.input = nextState.input,
                                  !.inputFormat = nextState.inputFormat,
                                  !.outputFormat = nextState.outputFormat,
                                  !.historyIndex = @ + 1,
                                  !.lastRead = "entry"]
          ELSE [convert EXCEPT !.lastRead = "undefined"]
    /\ UNCHANGED exceptConvert

\* handleClear
HandleClear ==
    /\ convert.input # "" => convert.historyIndex < MaxIndex
    /\ convert' =
          [(IF convert.input # ""
            THEN addToHistory(convert, convert.input, convert.inputFormat,
                              convert.outputFormat)
            ELSE convert) EXCEPT !.input = ""]
    /\ UNCHANGED exceptConvert

ConvertInit ==
    /\ tools = shippedTools
    /\ logicCache = {}
    /\ calls = [c \in Calls |-> idleCall]
    /\ loadCount = [i \in 1..Len(tools) |-> 0]
    /\ invocations = << >>
    /\ publicTools = << >>
    /\ uiCategories = << >>
    /\ toolsPublic = << >>
    /\ audioCall = idleAudio
    /\ ComponentsIdle

ConvertNext ==
    \/ \E value \in Texts : HandleInputChange(value)
    \/ \E value \in FormatValues(inputFormats) : InputFormatChange(value)
    \/ \E value \in FormatValues(outputFormats) : OutputFormatChange(value)
    \/ HandleUndo
    \/ HandleRedo
    \/ HandleClear

ConvertSpec == ConvertInit /\ [][ConvertNext]_vars

\* ----------------------------------------------------------- Card favorites
exceptCards == <<registryVars, audioCall, worker, api, route, convert>>

\* The first render of a Card: useState's initializer reads the stored item,
\* and the effect writes the value back under the key.
Mount(c) ==
    /\ ~cards.card[c].mounted
    /\ LET value == IF cards.storage # NoItem THEN JSONParse(cards.storage)
                    ELSE << >>
       IN cards' = [cards EXCEPT !.card[c].mounted = TRUE,
                                 !.card[c].value = value,
                                 !.storage = JSONStringify(value)]
    /\ UNCHANGED exceptCards

\* toggleFavorite on card c, then the effect of the re-render writes the
\* card's new value under the key.
ToggleFavorite(c) ==
    /\ cards.card[c].mounted
    /\ cards.card[c].adds + cards.card[c].removes < MaxToggles
    /\ LET favorites == cards.card[c].value
           remove == Includes(favorites, Title(c))
           value == IF remove THEN Without(favorites, Title(c))
                    ELSE Append(favorites, Title(c))
       IN cards' = [cards EXCEPT !.card[c].value = value,
                                 !.card[c].adds = IF remove THEN @ ELSE @ + 1,
                                 !.card[c].removes = IF remove THEN @ + 1 ELSE @,
                                 !.storage = JSONStringify(value)]
    /\ UNCHANGED exceptCards

CardsInit ==
    /\ tools = shippedTools
    /\ logicCache = {}
    /\ calls = [c \in Calls |-> idleCall]
    /\ loadCount = [i \in 1..Len(tools) |-> 0]
    /\ invocations = << >>
    /\ publicTools = << >>
    /\ uiCategories = << >>
    /\ toolsPublic = << >>
    /\ audioCall = idleAudio
    /\ ComponentsIdle

CardsNext ==
    \/ \E c \in Cards : Mount(c)
    \/ \E c \in Cards : ToggleFavorite(c)

CardsSpec == CardsInit /\ [][CardsNext]_vars

\* ----------------------------------------------------------- specification
Loading == {c \in Calls : calls[c].pc = "loading"}

\* The outcomes of the loader invocation that call c awaits.
YieldsFor(c) == logicLoader(tools[calls[c].tool].logicLoader, calls[c].gen)

Next ==
    \/ \E c \in Calls : \E slug \in SlugsOf(tools) : \E args \in ArgLists(slug) :
          RunTool(c, slug, args)
    \/ \E c \in Loading : \E out \in YieldsFor(c) : LoaderSettles(c, out)
    \/ \E c \in Calls : InvokeLogic(c)
    \/ GetPublicTools
    \/ BuildUICategories

Spec == Init /\ [][Next]_vars

\* The dispatcher over registries whose slugs or ids are not unique.
ClashInit ==
    /\ tools \in ClashRegistries
    /\ logicCache = {}
    /\ calls = [c \in Calls |-> idleCall]
    /\ loadCount = [i \in 1..Len(tools) |-> 0]
    /\ invocations = << >>
    /\ publicTools = << >>
    /\ uiCategories = << >>
    /\ toolsPublic = << >>
    /\ audioCall = idleAudio
    /\ ComponentsIdle

ClashSpec == ClashInit /\ [][Next]_vars

\* The first call's loader, or the promise its tool logic returns, may never
\* settle. The loaders awaited by the other calls settle, and the event loop
\* then runs the continuation of each of these calls.
Progress(c) ==
    /\ WF_vars(c \in Loading /\ \E out \in YieldsFor(c) : LoaderSettles(c, out))
    /\ WF_vars(InvokeLogic(c))

LiveSpec == Spec /\ \A c \in Calls \ {1} : Progress(c)

\* The registry views and the build-time export over every configured
\* registry; no tool is run.
ViewInit ==
    /\ tools \in ConfiguredRegistries
    /\ logicCache = {}
    /\ calls = [c \in Calls |-> idleCall]
    /\ loadCount = [i \in 1..Len(tools) |-> 0]
    /\ invocations = << >>
    /\ publicTools = << >>
    /\ uiCategories = << >>
    /\ toolsPublic = << >>
    /\ audioCall = idleAudio
    /\ ComponentsIdle

ViewNext ==
    \/ GetPublicTools
    \/ BuildUICategories
    \/ BuildToolsPublic

ViewSpec == ViewInit /\ [][ViewNext]_vars

\* ------------------------------------------------------- shared vocabulary
\* The id of the descriptor that call c matched.
IdOf(c) == tools[calls[c].tool].id

\* Call c invoked its tool's loader (it found no cache entry).
Loaded(c) == calls[c].gen > 0

\* The loader awaited by call c has resolved with a module.
Settled(c) == Loaded(c) /\ calls[c].yielded.ok

\* The invocations of tool logic made on behalf of call c.
InvocationsOf(c) == {n \in 1..Len(invocations) : invocations[n].call = c}

\* Calls c1 and c2 are first-time calls for the same tool that both passed
\* the cache check before either loader resolved: both invoked the loader,
\* and c1 had not finished when c2 started.
Raced(c1, c2) ==
    /\ c1 < c2
    /\ calls[c1].tool # 0
    /\ calls[c1].tool = calls[c2].tool
    /\ Loaded(c1) /\ Loaded(c2)
    /\ c1 \notin calls[c2].after

\* The loader of call c yielded a module with a callable default or first
\* export.
YieldedCallable(c) ==
    /\ Settled(c)
    /\ \/ IsFunction(ModGet(calls[c].yielded.mod, "default"))
       \/ /\ ~HasKey(calls[c].yielded.mod, "default")
          /\ IsFunction(FirstValue(calls[c].yielded.mod))

C2_AppendOnly == [][\A e \in logicCache : e \in logicCache']_vars

\* C3: once a call has resolved a tool's logic and finished, a later call
\* for the same tool does not invoke the loader again; it runs a function
\* that an earlier load of that tool put into the cache.
C3_AtMostOnceLoading ==
    \A c1, c2 \in Calls :
        ( /\ c1 \in calls[c2].after
          /\ calls[c1].tool # 0
          /\ calls[c1].tool = calls[c2].tool
          /\ IsFunction(calls[c1].logic) )
        => /\ ~Loaded(c2)
           /\ calls[c2].pc \in {"resolved", "done"}
           /\ \E c0 \in Calls :
                 /\ calls[c0].tool = calls[c2].tool
                 /\ Loaded(c0)
                 /\ calls[c2].logic = calls[c0].logic

C3_Witness ==
    \E c1, c2 \in Calls :
        /\ c1 \in calls[c2].after
        /\ calls[c1].tool # 0
        /\ calls[c1].tool = calls[c2].tool
        /\ Loaded(c1) /\ IsFunction(calls[c1].logic)
        /\ calls[c2].pc = "done"
        /\ calls[c2].outcome.kind = "return"
        /\ loadCount[calls[c1].tool] = 1

\* No descriptor of the registry has slug s.
NoSuchSlug(s) == \A i \in 1..Len(tools) : tools[i].slug # s

\* C4: runTool for a slug that matches no descriptor fails with the error
\* "Tool not found: <slug>", invokes no loader and no tool logic, and the
\* step leaves the cache (and the load and invocation logs) as they were.
C4_NotFound ==
    [][/\ \A c \in Calls :
            (calls'[c].pc # "idle" /\ NoSuchSlug(calls'[c].slug))
            => /\ calls'[c].pc = "done"
               /\ calls'[c].outcome.kind = "error"
               /\ calls'[c].outcome.msg = "Tool not found: " \o calls'[c].slug
               /\ calls'[c].gen = 0
               /\ \A n \in 1..Len(invocations') : invocations'[n].call # c
       /\ \A c \in Calls :
            (calls[c].pc = "idle" /\ calls'[c].pc # "idle" /\ NoSuchSlug(calls'[c].slug))
            => UNCHANGED <<logicCache, loadCount, invocations>>]_vars

C4_Witness ==
    \E c \in Calls :
        /\ calls[c].pc = "done"
        /\ calls[c].slug = "does-not-exist"
        /\ calls[c].outcome.msg = "Tool not found: does-not-exist"
        /\ logicCache # {}

\* C5: when the loader resolves and the value extracted from the module is
\* not callable, the call fails with "Tool logic not found for <tool id>"
\* and no tool logic is invoked for it.
C5_LogicMissing ==
    \A c \in Calls :
        (Settled(c) /\ ~IsFunction(ExtractLogic(calls[c].yielded.mod)))
        => /\ calls[c].pc = "done"
           /\ calls[c].outcome.kind = "error"
           /\ calls[c].outcome.msg = "Tool logic not found for " \o IdOf(c)
           /\ InvocationsOf(c) = {}

C5_Witness ==
    \E c \in Calls :
        /\ Settled(c)
        /\ calls[c].yielded.mod = << Export("default", PlainObject) >>
        /\ calls[c].outcome.msg = "Tool logic not found for tool-alpha"

\* Call c invoked the loader and failed to resolve (ToolLogicMissing or a
\* rejected loader).
FailedResolve(c) ==
    /\ calls[c].pc = "done"
    /\ Loaded(c)
    /\ ~IsFunction(calls[c].logic)

\* Call c fails to resolve in this step.
FailsNow(c) == calls[c].pc = "loading" /\ calls'[c].pc = "done"

\* C6 as stated: right after a call fails to resolve, the cache holds no
\* entry for the tool id, and a call for the same tool started after a
\* failed one invokes the loader again.
C6_FailureLeavesNoEntry ==
    [][/\ \A c \in Calls : FailsNow(c) => ~CacheHas(logicCache', IdOf(c))
       /\ \A c1, c2 \in Calls :
            ( /\ calls[c2].pc = "idle" /\ calls'[c2].pc # "idle"
              /\ FailedResolve(c1)
              /\ calls'[c2].tool = calls[c1].tool )
            => calls'[c2].gen > 0]_vars

\* C6 amended: a failed resolve writes nothing to the cache; an entry exists
\* only for an id some call resolved to a function; and when no other call
\* has resolved the id, a call started after a failed one invokes the loader
\* again.
C6_FailureNotCached ==
    [][/\ \A c \in Calls : FailsNow(c) => logicCache' = logicCache
       /\ \A e \in logicCache' :
            \E c \in Calls :
                /\ calls'[c].tool # 0 /\ tools[calls'[c].tool].id = e.key
                /\ calls'[c].gen > 0 /\ calls'[c].logic = e.val /\ IsFunction(e.val)
       /\ \A c1, c2 \in Calls :
            ( /\ c1 \in calls'[c2].after
              /\ calls'[c1].pc = "done" /\ calls'[c1].gen > 0
              /\ ~IsFunction(calls'[c1].logic)
              /\ calls'[c2].tool = calls'[c1].tool
              /\ \A c0 \in Calls \ {c2} :
                    (calls'[c0].tool # 0 /\
                       tools[calls'[c0].tool].id = tools[calls'[c1].tool].id)
                    => ~IsFunction(calls'[c0].logic) )
            => calls'[c2].gen > 0]_vars

C6_Witness ==
    \E c1, c2 \in Calls :
        /\ c1 \in calls[c2].after
        /\ FailedResolve(c1)
        /\ calls[c2].tool = calls[c1].tool
        /\ calls[c2].pc = "done"
        /\ calls[c2].outcome.kind = "return"
        /\ loadCount[calls[c1].tool] = 2

\* C7: a call that resolved its logic invokes it exactly once, with the
\* caller's arguments in order, and ends with exactly the outcome (value or
\* failure) of that invocation; no other call state has an invocation.
C7_InvokeOnceVerbatim ==
    \A c \in Calls :
        IF calls[c].pc = "done" /\ IsFunction(calls[c].logic)
        THEN /\ \E n \in 1..Len(invocations) :
                  /\ InvocationsOf(c) = {n}
                  /\ invocations[n].fn = calls[c].logic
                  /\ invocations[n].args = calls[c].args
             /\ calls[c].outcome = Apply(calls[c].logic, calls[c].args)
        ELSE InvocationsOf(c) = {}

C7_Witness ==
    \E c, d \in Calls :
        /\ calls[c].pc = "done" /\ calls[c].outcome.kind = "throw"
        /\ calls[d].pc = "done" /\ calls[d].outcome.kind = "return"
        /\ Len(calls[d].args) = 2
        /\ Len(invocations) = 2

\* C8: against the shipped registry, two successive calls
\* runTool("case-converter", "Hello World", {caseType: "upper"}) both
\* complete with equal results, and the loader of tool-case-converter is
\* invoked at most once.
C8_CaseConverterTwice ==
    ( /\ tools = shippedTools
      /\ calls[1].pc = "done" /\ calls[2].pc = "done"
      /\ calls[1].slug = "case-converter" /\ calls[2].slug = "case-converter"
      /\ calls[1].args = HelloArgs /\ calls[2].args = HelloArgs
      /\ 1 \in calls[2].after )
    => /\ calls[1].outcome.kind = "return"
       /\ calls[2].outcome.kind = "return"
       /\ calls[1].outcome = calls[2].outcome
       /\ loadCount[1] <= 1

\* The value the claim says is selected: the default export when the module
\* has one, otherwise the first enumerable value.
DefaultIfPresent(mod) ==
    IF HasKey(mod, "default") THEN ModGet(mod, "default") ELSE FirstValue(mod)

\* The default export when the module has one that is neither null nor
\* undefined, otherwise the first enumerable value.
DefaultIfNotNullish(mod) ==
    IF HasKey(mod, "default") /\ ModGet(mod, "default").t \notin {"null", "undefined"}
    THEN ModGet(mod, "default")
    ELSE FirstValue(mod)

\* C9 as stated: the dispatcher resolves a call to the default export when
\* the module has a default property, otherwise to the first enumerable
\* value; a non-callable selection resolves nothing.
C9_DefaultElseFirst ==
    \A c \in Calls :
        Settled(c) =>
            IF IsFunction(DefaultIfPresent(calls[c].yielded.mod))
            THEN calls[c].logic = DefaultIfPresent(calls[c].yielded.mod)
            ELSE ~IsFunction(calls[c].logic)

\* C9 amended: the dispatcher selects the default export when it is neither
\* null nor undefined, otherwise the first enumerable value; that value and
\* no other export is what the resolve step caches and what the call invokes.
C9_NonNullDefaultElseFirst ==
    [][/\ \A c \in Calls :
            (calls'[c].gen > 0 /\ calls'[c].yielded.ok) =>
                IF IsFunction(DefaultIfNotNullish(calls'[c].yielded.mod))
                THEN /\ calls'[c].logic = DefaultIfNotNullish(calls'[c].yielded.mod)
                     /\ \A n \in 1..Len(invocations') :
                           invocations'[n].call = c =>
                              invocations'[n].fn = DefaultIfNotNullish(calls'[c].yielded.mod)
                ELSE /\ ~IsFunction(calls'[c].logic)
                     /\ \A n \in 1..Len(invocations') : invocations'[n].call # c
       /\ \A c \in Calls :
            (calls[c].pc = "loading" /\ calls'[c].pc = "resolved")
            => {e \in logicCache' : e.key = IdOf(c)} =
                  {[key |-> IdOf(c), val |-> DefaultIfNotNullish(calls'[c].yielded.mod)]}]_vars

C9_Witness ==
    \E c, d \in Calls :
        /\ calls[c].pc = "done" /\ calls[d].pc = "done"
        /\ calls[c].yielded.mod =
              << Export("a", Fn("g", calls[c].gen)), Export("default", Fn("f", calls[c].gen)) >>
        /\ calls[c].outcome.fn.name = "f"
        /\ calls[d].yielded.mod =
              << Export("a", Fn("g", calls[d].gen)), Export("default", Null) >>
        /\ calls[d].outcome.fn.name = "g"

\* C10: the cache changes only in a successful resolve step, which writes
\* the entry of the resolving call's tool id; reading the public views, a
\* failed lookup, a failed resolve and running tool logic leave it
\* unchanged; every key is the id of a registry descriptor.
C10_CacheFrame ==
    [][/\ logicCache' # logicCache =>
            /\ publicTools' = publicTools /\ uiCategories' = uiCategories
            /\ invocations' = invocations
            /\ \E c \in Calls :
                  /\ calls[c].pc = "loading" /\ calls'[c].pc = "resolved"
                  /\ IsFunction(calls'[c].logic)
                  /\ logicCache' = {e \in logicCache : e.key # IdOf(c)}
                                      \cup {[key |-> IdOf(c), val |-> calls'[c].logic]}
       /\ \A e \in logicCache' : \E i \in 1..Len(tools) : tools[i].id = e.key]_vars

C10_Witness ==
    /\ logicCache # {}
    /\ publicTools # << >>
    /\ uiCategories # << >>
    /\ \E c, d \in Calls :
          /\ calls[c].outcome.kind = "throw"
          /\ calls[d].outcome.kind = "error"

\* C11: for every descriptor of the registry, the view that getPublicTools
\* returns for it has none of the fields logicLoader, synonyms, handlerPath
\* and analyticsKey, and has every other field of the descriptor with the
\* descriptor's value.
C11_NoInternalFields ==
    publicTools # << >> =>
        \A i \in 1..Len(tools) :
            /\ i \in DOMAIN publicTools
            /\ (DOMAIN publicTools[i])
                  \cap {"logicLoader", "synonyms", "handlerPath", "analyticsKey"} = {}
            /\ \A k \in (DOMAIN tools[i])
                          \ {"logicLoader", "synonyms", "handlerPath", "analyticsKey"} :
                  /\ k \in DOMAIN publicTools[i]
                  /\ publicTools[i][k] = tools[i][k]

C11_Witness ==
    /\ publicTools # << >>
    /\ \E i \in 1..Len(tools) :
          /\ {"logicLoader", "synonyms", "handlerPath", "analyticsKey"}
                \subseteq DOMAIN tools[i]
          /\ "tags" \in DOMAIN publicTools[i]
          /\ "synonyms" \notin DOMAIN publicTools[i]

\* C12: getPublicTools returns one view per registry descriptor, in registry
\* order, hidden and experimental descriptors included.
C12_OneViewPerDescriptor ==
    publicTools # << >> =>
        /\ Len(publicTools) = Len(tools)
        /\ \A i \in 1..Len(tools) :
              /\ publicTools[i].id = tools[i].id
              /\ publicTools[i].slug = tools[i].slug
              /\ publicTools[i].isHidden = tools[i].isHidden
              /\ publicTools[i].isExperimental = tools[i].isExperimental

C12_Witness ==
    /\ Len(publicTools) >= 3
    /\ \E i, j \in 1..Len(publicTools) :
          /\ i < j
          /\ publicTools[i].isHidden /\ tools[i].isHidden
          /\ publicTools[j].isExperimental /\ tools[j].isExperimental

\* C13: buildUICategories returns one entry per categoryMeta entry, in the
\* order of categoryMeta and with its fields, and the entry of a category
\* that no visible tool belongs to is present with an empty tool list.
C13_EveryCategoryOnce ==
    uiCategories # << >> =>
        /\ Len(uiCategories) = Len(categoryMeta)
        /\ \A n \in 1..Len(categoryMeta) :
              /\ n \in DOMAIN uiCategories
              /\ \A k \in DOMAIN categoryMeta[n] :
                    uiCategories[n][k] = categoryMeta[n][k]
              /\ (\A i \in 1..Len(tools) :
                     tools[i].category # categoryMeta[n].key \/ tools[i].isHidden)
                    => uiCategories[n].tools = << >>
        /\ \A n, m \in DOMAIN uiCategories :
              uiCategories[n].key = uiCategories[m].key => n = m

C13_Witness ==
    /\ uiCategories # << >>
    /\ \E n, m \in DOMAIN uiCategories :
          /\ uiCategories[n].tools = << >>
          /\ uiCategories[m].tools # << >>
          /\ \E i \in 1..Len(tools) :
                tools[i].category = uiCategories[n].key /\ tools[i].isHidden

\* C14: the tool list of a category entry is the registry's descriptors of
\* that category that are not hidden, in registry order, each as the record
\* of id, slug, title, shortDescription, icon and path = "/" + slug; no
\* hidden descriptor is listed under any category.
C14_CategoryTools ==
    uiCategories # << >> =>
        \A n \in DOMAIN uiCategories :
            LET list == uiCategories[n].tools
                idx == {i \in 1..Len(tools) :
                          /\ tools[i].category = uiCategories[n].key
                          /\ ~tools[i].isHidden}
            IN /\ Len(list) = Cardinality(idx)
               /\ \A j \in 1..Len(list) :
                     \E i \in idx :
                        /\ Cardinality({h \in idx : h < i}) = j - 1
                        /\ list[j] = [id |-> tools[i].id, slug |-> tools[i].slug,
                                      title |-> tools[i].title,
                                      shortDescription |-> tools[i].shortDescription,
                                      icon |-> tools[i].icon,
                                      path |-> "/" \o tools[i].slug]
               /\ \A j \in 1..Len(list) :
                     ~ \E i \in 1..Len(tools) :
                          tools[i].isHidden /\ tools[i].id = list[j].id

C14_Witness ==
    /\ uiCategories # << >>
    /\ \E n \in DOMAIN uiCategories :
          /\ Len(uiCategories[n].tools) = 2
          /\ uiCategories[n].tools[1].id = "tool-alpha-2"
          /\ uiCategories[n].tools[2].id = "tool-alpha"
          /\ uiCategories[n].tools[2].path = "/alpha"
          /\ \E i \in 1..Len(tools) :
                /\ tools[i].isHidden
                /\ tools[i].category = uiCategories[n].key
                /\ 1 < i /\ i < Len(tools)
\* C15: the slugs of the registry's descriptors are pairwise distinct: no
\* registry is built in which two descriptors share a slug.
C15_SlugsDistinct ==
    \A i, j \in 1..Len(tools) : i # j => tools[i].slug # tools[j].slug

\* C16: while the first call hangs in its loader or in its tool invocation,
\* every later call for another tool, and every later call that finds its
\* tool's logic in the cache, runs to completion.
C16_HangBlocksOnlyCaller ==
    \A c \in Calls \ {1} :
        ( /\ calls[1].pc \in {"loading", "resolved"}
          /\ calls[c].pc \in {"loading", "resolved"}
          /\ calls[c].tool # calls[1].tool \/ ~Loaded(c) )
        ~> (calls[c].pc = "done")

C16_Witness ==
    /\ calls[1].pc = "loading"
    /\ \E c \in Calls \ {1} :
          /\ calls[c].pc = "done"
          /\ calls[c].tool # calls[1].tool
          /\ Loaded(c)
          /\ calls[c].outcome.kind = "return"
\* C17: no loader has been invoked when the registry is built; a
\* descriptor's loader is invoked only by the step in which a runTool call
\* with that descriptor's slug starts, one invocation per such step, and
\* only when the cache holds no entry for the descriptor's id; reading the
\* public views invokes no loader; a descriptor that no call was made for
\* has never been loaded.
C17_LazyLoading ==
    /\ \A i \in 1..Len(tools) : loadCount[i] = 0
    /\ [][\A i \in 1..Len(tools) :
            /\ loadCount'[i] # loadCount[i] =>
                  /\ loadCount'[i] = loadCount[i] + 1
                  /\ publicTools' = publicTools /\ uiCategories' = uiCategories
                  /\ ~ \E e \in logicCache : e.key = tools[i].id
                  /\ \E c \in Calls :
                        /\ calls[c].pc = "idle" /\ calls'[c].pc = "loading"
                        /\ calls'[c].slug = tools[i].slug
                        /\ \A d \in Calls \ {c} : calls'[d] = calls[d]
            /\ loadCount'[i] > 0 =>
                  \E c \in Calls :
                     calls'[c].pc # "idle" /\ calls'[c].slug = tools[i].slug]_vars

C17_Witness ==
    /\ publicTools # << >>
    /\ uiCategories # << >>
    /\ \A c \in Calls : calls[c].pc = "done" /\ calls[c].outcome.kind = "return"
    /\ \E i, j \in 1..Len(tools) :
          /\ loadCount[i] = 1
          /\ \A c \in Calls : calls[c].tool = i
          /\ loadCount[j] = 0
C19_ViewsDeterministic ==
    [][/\ tools' = tools
       /\ publicTools # << >> => publicTools' = publicTools
       /\ uiCategories # << >> => uiCategories' = uiCategories]_vars

C19_Witness ==
    /\ Len(publicTools) = Len(tools)
    /\ Len(uiCategories) = Len(categoryMeta)
    /\ Cardinality(logicCache) = 2
    /\ Len(invocations) = MaxCalls
    /\ \A c \in Calls : calls[c].pc = "done"
Shadowed(j) == \E i \in 1..(j - 1) : tools[i].slug = tools[j].slug

\* C21: a runTool call whose slug several descriptors carry resolves the
\* first of them in registry order; a descriptor that comes after another
\* one with its slug is never loaded, never cached and never run.
C21_FirstMatchWins ==
    /\ \A c \in Calls :
          (calls[c].pc # "idle" /\ \E i \in 1..Len(tools) : tools[i].slug = calls[c].slug)
          => /\ calls[c].tool \in 1..Len(tools)
             /\ tools[calls[c].tool].slug = calls[c].slug
             /\ ~Shadowed(calls[c].tool)
    /\ \A j \in 1..Len(tools) :
          Shadowed(j) =>
             /\ loadCount[j] = 0
             /\ \A e \in logicCache : e.key # tools[j].id
             /\ \A n \in 1..Len(invocations) :
                   \A g \in 1..MaxCalls :
                      \A out \in logicLoader(tools[j].logicLoader, g) :
                         out.ok => invocations[n].fn # ModGet(out.mod, "default")

C21_Witness ==
    /\ \E j \in 1..Len(tools) : Shadowed(j) /\ loadCount[j] = 0
    /\ loadCount[1] >= 1
    /\ \A c \in Calls :
          /\ calls[c].pc = "done"
          /\ calls[c].slug = tools[2].slug
          /\ calls[c].outcome.kind = "return"
          /\ calls[c].outcome.fn.name = "h"

\* C22: every function that a runTool call invokes is one that the loader
\* of the descriptor matched by the call's slug yields, also when two
\* descriptors with different slugs carry one id.
C22_RunsOwnLogic ==
    \A n \in 1..Len(invocations) :
        LET c == invocations[n].call
        IN \E g \in 1..MaxCalls :
              \E out \in logicLoader(tools[calls[c].tool].logicLoader, g) :
                 out.ok /\ invocations[n].fn = ModGet(out.mod, "default")
\* C23: the promise of an mp3Cutter call is resolved only by a result
\* message (blob, url, duration) and rejected only by an error message; no
\* progress message, the first one with progress 0 included, settles it.
C23_ProgressNeverSettles ==
    \A c \in Cutters :
        /\ worker.promise[c].state = "resolved" => worker.promise[c].data.result
        /\ worker.promise[c].state = "rejected" => worker.promise[c].data.error # ""
        /\ worker.promise[c].state # "pending" => worker.promise[c].data.progress = << >>

\* C24: a settled promise of a call was settled by a message that the
\* worker produced for that call's own file and parameters.
C24_SettledByOwnJob ==
    \A c \in Cutters :
        worker.promise[c].state \in {"resolved", "rejected"}
        => worker.promise[c].data.owner = c
C26_LeaveApart ==
    \A c, d \in ApiCalls :
        (c # d /\ api.call[c].leftAt # 0 /\ api.call[d].leftAt # 0)
        => \/ api.call[c].leftAt - api.call[d].leftAt >= 1000
           \/ api.call[d].leftAt - api.call[c].leftAt >= 1000

\* C27 (as stated): the handler runs only for a POST request that passed
\* rate limiting; a request that is not a POST is answered with 405 and the
\* handler does not run; a handler result is answered with 200 and
\* { data: result }, a thrown error with 500 and { error: message }; a
\* request gets at most one response.
C27_RouteOutcomes ==
    \A r \in Requests :
        LET req == route[r]
        IN /\ req.handlerRuns > 0 => (req.limiter = "pass" /\ req.method = "POST")
           /\ (req.method # "POST" /\ req.responses # << >>) =>
                 /\ req.responses[1].status = 405
                 /\ req.handlerRuns = 0
           /\ (req.pc = "done" /\ req.handlerRuns > 0) =>
                 \/ /\ req.responses[1].status = 200 /\ req.responses[1].key = "data"
                    /\ req.responses[1].value \in {"result-a", "result-b"}
                 \/ /\ req.responses[1].status = 500 /\ req.responses[1].key = "error"
                    /\ req.responses[1].value = "Invalid input"
           /\ Len(req.responses) <= 1

\* C27 (amended): rate limiting comes first. A request over the limit is
\* answered with 429 by the limiter, a limiter error with 500, and in both
\* cases neither the method check nor the handler runs; a request that
\* passed and is not a POST is answered with 405 and the handler does not
\* run; a POST that passed runs the handler once, and its result is
\* answered with 200 and { data: result }, its error with 500 and
\* { error: message }; a request gets at most one response.
C27_RouteOutcomesAfterLimiter ==
    \A r \in Requests :
        LET req == route[r]
        IN /\ req.handlerRuns <= 1
           /\ req.handlerRuns = 1 <=>
                 (req.limiter = "pass" /\ req.method = "POST")
           /\ Len(req.responses) <= 1
           /\ req.limiter = "limited" =>
                 /\ Len(req.responses) = 1 /\ req.responses[1].status = 429
           /\ req.limiter = "error" =>
                 /\ Len(req.responses) = 1 /\ req.responses[1].status = 500
                 /\ req.responses[1].key = "error"
           /\ (req.limiter = "pass" /\ req.method # "POST") =>
                 req.responses =
                    << [status |-> 405, key |-> "error", value |-> "Method not allowed"] >>
           /\ (req.responses # << >> /\ req.responses[1].status = 405) =>
                 (req.limiter = "pass" /\ req.method # "POST")
           /\ (req.pc = "done" /\ req.handlerRuns = 1) =>
                 \/ /\ req.responses[1].status = 200 /\ req.responses[1].key = "data"
                    /\ req.responses[1].value \in {"result-a", "result-b"}
                 \/ /\ req.responses[1].status = 500 /\ req.responses[1].key = "error"
                    /\ req.responses[1].value = "Invalid input"
           /\ (req.responses # << >> /\ req.responses[1].status = 200) =>
                 req.handlerRuns = 1

C27_Witness ==
    \E r, q \in Requests :
        /\ route[r].method = "GET" /\ route[r].limiter = "limited"
        /\ route[r].responses # << >> /\ route[r].responses[1].status = 429
        /\ route[q].method = "POST" /\ route[q].pc = "done"
        /\ route[q].responses # << >> /\ route[q].responses[1].status = 200

\* C28: mp3Cutter posts to the server only input that passes
\* validateAudioFile and the time-range check, and input that fails one of
\* them ends with INVALID_FILE_TYPE, UNSUPPORTED_FORMAT or
\* INVALID_TIME_RANGE without a post.
C28_PostsOnlyValidInput ==
    audioCall.tool = "mp3Cutter" =>
        /\ audioCall.posts > 0 =>
              /\ validateAudioFile(audioCall.in) = NoCode
              /\ checkArguments("mp3Cutter", audioCall.in) = NoCode
        /\ ( /\ audioCall.pc = "done"
             /\ \/ validateAudioFile(audioCall.in) # NoCode
                \/ checkArguments("mp3Cutter", audioCall.in) # NoCode ) =>
              /\ audioCall.code \in {"INVALID_FILE_TYPE", "UNSUPPORTED_FORMAT",
                                     "INVALID_TIME_RANGE"}
              /\ audioCall.posts = 0

\* C29: in ConvertToolTemplate the history holds at most 10 entries,
\* -1 <= historyIndex <= history.length - 1, and handleUndo and handleRedo
\* read an existing history entry.
C29_HistoryIndexInRange ==
    /\ Len(convert.history) <= 10
    /\ -1 <= convert.historyIndex
    /\ convert.historyIndex <= Len(convert.history) - 1
    /\ convert.lastRead # "undefined"

\* C30: when favorite was toggled on for two different cards and toggled
\* off for neither, the item stored under 'favorites' contains both titles.
C30_BothFavoritesStored ==
    \A c, d \in Cards :
        ( /\ c # d
          /\ cards.card[c].adds = 1 /\ cards.card[c].removes = 0
          /\ cards.card[d].adds = 1 /\ cards.card[d].removes = 0 ) =>
            /\ Includes(JSONParse(cards.storage), Title(c))
            /\ Includes(JSONParse(cards.storage), Title(d))
====
